---- MODULE Spec2Model ----
(***************************************************************************)
(* Shirakawago availability monitor: the scraper (ShirakawagoBotScraper), *)
(* the message formatter and the entry point check_and_notify.            *)
(*                                                                         *)
(* Strings are sequences of text chunks; every character the code looks   *)
(* at on its own (digits and "/" of a date label, the Markdown special    *)
(* characters) is a chunk of its own.  Optional[str] is a record with a   *)
(* flag.  A dict is the sequence of its items in insertion order.         *)
(***************************************************************************)
EXTENDS Integers, Sequences, FiniteSets, TLC

VARIABLES
    pc,            \* position of the entry point / check_availability
    date,          \* target_date handed to check_availability
    driver,        \* self.driver: <<>> is None, <<s>> is session s
    quitCount,     \* quitCount[s]: number of driver.quit() calls on session s
    page,          \* the rendered results grid (external page state)
    hotels,        \* local list `hotels` of check_availability
    result,        \* the AvailabilityResult being returned
    failedStep,    \* history: the step of check_availability that failed
    raisedHotels,  \* history: hotel ids whose extraction hit the except branch
    message,       \* formatted message of the entry point
    sendAttempts,  \* history: calls of notifier.send_message
    classAttr,     \* classifier harness: the cell's class attribute, split
    status         \* classifier harness: parse_availability_status' result

vars == <<pc, date, driver, quitCount, page, hotels, result, failedStep,
          raisedHotels, message, sendAttempts, classAttr, status>>

----------------------------------------------------------------------------
(* Bounds *)

\* rows of monitored/unlinked hotels rendered after the leading rows
MaxGridRows == 2
\* header lookups that may fail during one scrape
MaxFaults == 1
\* tokens in a class attribute handed to the classifier
MaxClassLen == 4
\* calls of check_availability on one scraper that end with a quit
MaxCalls == 2

(* Program constants *)

\* while row < 30
RowCap == 30
\* for day in range(10)
DayCount == 10

----------------------------------------------------------------------------
(* Strings *)

DigitChars == <<"0", "1", "2", "3", "4", "5", "6", "7", "8", "9">>

\* str(n) for n >= 0
RECURSIVE Str(_)
Str(n) ==
    IF n < 10 THEN <<DigitChars[n + 1]>>
    ELSE Str(n \div 10) \o <<DigitChars[(n % 10) + 1]>>

\* strftime("%m") / strftime("%d"): two digits, zero padded
Strftime2(n) == <<DigitChars[(n \div 10) + 1], DigitChars[(n % 10) + 1]>>

\* s.lstrip("0")
RECURSIVE Lstrip0(_)
Lstrip0(s) ==
    IF s # <<>> /\ Head(s) = "0" THEN Lstrip0(Tail(s)) ELSE s

\* a.startswith(p)
StartsWith(a, p) ==
    /\ Len(p) <= Len(a)
    /\ \A i \in 1..Len(p) : a[i] = p[i]

\* the chunk "backtick" stands for the character U+0060
special_chars ==
    {"_", "*", "[", "]", "(", ")", "~", "backtick", ">", "#", "+", "-", "=", "|",
     "{", "}", ".", "!"}

RECURSIVE escape_markdown(_)
escape_markdown(text) ==
    IF text = <<>> THEN <<>>
    ELSE (IF Head(text) \in special_chars
            THEN <<"\\", Head(text)>>
            ELSE <<Head(text)>>) \o escape_markdown(Tail(text))

\* Optional[str]
None == [some |-> FALSE, text |-> <<>>]
Some(t) == [some |-> TRUE, text |-> t]
\* truthiness of an Optional[str]
Truthy(o) == o.some /\ o.text # <<>>

----------------------------------------------------------------------------
(* Data *)

MONITORED_HOTELS ==
    << [id |-> "21560043", name |-> <<"Yokichi">>],
       [id |-> "21560029", name |-> <<"Magoemon">>],
       [id |-> "21560055", name |-> <<"YOSHIRO">>] >>

MonitoredIds == {MONITORED_HOTELS[i].id : i \in 1..Len(MONITORED_HOTELS)}

AVAILABLE == <<"AVAILABLE">>
ALMOST_FULL == <<"ALMOST", "_", "FULL">>
BOOKED == <<"BOOKED">>
NOT_OPEN == <<"NOT", "_", "OPEN">>
UNKNOWN == <<"UNKNOWN">>

\* AvailabilityResult(date, hotels, error)
AvailabilityResult(d, hs, err) == [date |-> d, hotels |-> hs, error |-> err]

\* dict[key] = value on an insertion-ordered dict
RECURSIVE DictSet(_, _, _)
DictSet(dict, key, value) ==
    IF dict = <<>> THEN << [key |-> key, value |-> value] >>
    ELSE IF Head(dict).key = key
           THEN << [key |-> key, value |-> value] >> \o Tail(dict)
           ELSE << Head(dict) >> \o DictSet(Tail(dict), key, value)

DictKeys(dict) == {dict[i].key : i \in 1..Len(dict)}
DictGet(dict, key) ==
    dict[CHOOSE i \in 1..Len(dict) : dict[i].key = key].value

----------------------------------------------------------------------------
(* The page: the results grid as the browser session shows it.             *)
(* Rows 0..offset-1 are rows of hotels that are not monitored; the rows    *)
(* after them are page.rows.  A row has the hotel link of its preceding    *)
(* td.cal_gp_hotel (possibly missing, possibly without onclick) and the    *)
(* cells ypro_stock_calendar{row}_{day} it renders; cells are rendered in  *)
(* the day columns GridDays only.                                          *)

\* the class attribute of a cell, split into tokens
AvailableClass == <<"mark", "m01", "m01_col">>
AlmostFullClass == <<"mark", "m02", "m02_col">>
BookedClass == <<"mark", "m03">>

NoCell == [exists |-> FALSE, classes |-> <<>>]
Cell(classes) == [exists |-> TRUE, classes |-> classes]

NoLink == [exists |-> FALSE, onclick |-> None]
NoOnclick == [exists |-> TRUE, onclick |-> None]
LinkTo(id) == [exists |-> TRUE, onclick |-> Some(<<"hotel('", id, "')">>)]

OtherHotelId == "21560001"

\* day columns in which the enumerated rows render cells
GridDays == {0, DayCount - 1}

\* a row with cells in both columns, and one without a cell in column 0
FullRowCells ==
    [d \in GridDays |-> IF d = 0 THEN Cell(AvailableClass) ELSE Cell(BookedClass)]
LateRowCells ==
    [d \in GridDays |-> IF d = 0 THEN NoCell ELSE Cell(AvailableClass)]

Rows ==
    [link : {LinkTo(MONITORED_HOTELS[1].id), LinkTo(MONITORED_HOTELS[2].id)},
     cells : {FullRowCells, LateRowCells}]
    \cup {[link |-> NoLink, cells |-> FullRowCells],
          [link |-> NoOnclick, cells |-> LateRowCells]}

RECURSIVE SeqsUpTo(_, _)
SeqsUpTo(S, n) ==
    IF n = 0 THEN {<<>>}
    ELSE LET shorter == SeqsUpTo(S, n - 1)
         IN  shorter \cup {Append(s, x) : s \in shorter, x \in S}

\* number of leading rows of other hotels
Offsets == {0, RowCap - 1}

NoPage == [rendered |-> FALSE, offset |-> 0, rows |-> <<>>]
Pages ==
    {[rendered |-> TRUE, offset |-> o, rows |-> rs] :
        o \in Offsets, rs \in SeqsUpTo(Rows, MaxGridRows)}

\* driver.find_element(By.ID, "ypro_stock_calendar{row}_{day}")
FindCell(pg, row, day) ==
    IF day \notin GridDays THEN NoCell
    ELSE IF row < pg.offset THEN Cell(AlmostFullClass)
    ELSE IF row - pg.offset < Len(pg.rows)
           THEN pg.rows[row - pg.offset + 1].cells[day]
           ELSE NoCell

\* cell.find_element(By.XPATH, "./preceding-sibling::td[@class='cal_gp_hotel']//a")
FindHotelLink(pg, row) ==
    IF row < pg.offset THEN LinkTo(OtherHotelId)
    ELSE IF row - pg.offset < Len(pg.rows)
           THEN pg.rows[row - pg.offset + 1].link
           ELSE NoLink

\* hotel_id in onclick, onclick a string
Contains(text, id) == \E i \in 1..Len(text) : text[i] = id

\* driver.find_element(By.ID, "ypro_stock_calendar_header{day}").text:
\* the grid shows the ten days from the queried date on
HeaderText(d, day) == Str(d.month) \o <<"/">> \o Str(d.day + day)

----------------------------------------------------------------------------
(* ShirakawagoBotScraper *)

InClasses(tok, classes) == \E i \in 1..Len(classes) : classes[i] = tok

\* the classifier with the booked marker tested first
parse_availability_status_booked_first(classes) ==
    IF InClasses("m03", classes)
      THEN BOOKED
    ELSE IF InClasses("m01", classes) /\ InClasses("m01_col", classes)
      THEN AVAILABLE
    ELSE IF InClasses("m02", classes) /\ InClasses("m02_col", classes)
      THEN ALMOST_FULL
    ELSE NOT_OPEN

parse_availability_status(classes) ==
    IF InClasses("m01", classes) /\ InClasses("m01_col", classes)
      THEN AVAILABLE
    ELSE IF InClasses("m02", classes) /\ InClasses("m02_col", classes)
      THEN ALMOST_FULL
    ELSE IF InClasses("m03", classes)
      THEN BOOKED
    ELSE NOT_OPEN

\* the local `cell` of get_hotel_availability: -1 is None, else the row
\* of the cell element it holds
NoneCell == 0 - 1

\* the while loop of get_hotel_availability from `row` on, `cell` being the
\* value the variable holds on entry; the value of `cell` after the loop
RECURSIVE ScanRows(_, _, _, _, _)
ScanRows(pg, hotel_id, day, row, cell) ==
    IF row >= RowCap THEN cell
    ELSE IF ~FindCell(pg, row, day).exists
      \* find_element raises: except/pass, cell keeps its value
      THEN ScanRows(pg, hotel_id, day, row + 1, cell)
    ELSE LET link == FindHotelLink(pg, row) IN
         IF ~link.exists \/ ~link.onclick.some
           \* the link lookup (or `in None`) raises after cell was assigned
           THEN ScanRows(pg, hotel_id, day, row + 1, row)
         ELSE IF Contains(link.onclick.text, hotel_id)
           THEN row
         ELSE ScanRows(pg, hotel_id, day, row + 1, NoneCell)

\* the for loop of get_hotel_availability from `day` on; faultDays are the
\* days whose header lookup raises in this call.  Gives the dict returned
\* and whether the outer except branch was taken.
RECURSIVE DayLoop(_, _, _, _, _, _)
DayLoop(pg, d, hotel_id, faultDays, day, availability) ==
    IF day >= DayCount THEN [availability |-> availability, raised |-> FALSE]
    ELSE LET cell == ScanRows(pg, hotel_id, day, 0, NoneCell) IN
         IF cell = NoneCell
           THEN DayLoop(pg, d, hotel_id, faultDays, day + 1, availability)
         ELSE IF day \in faultDays
           THEN [availability |-> availability, raised |-> TRUE]
         ELSE DayLoop(pg, d, hotel_id, faultDays, day + 1,
                      DictSet(availability, HeaderText(d, day),
                              parse_availability_status(
                                  FindCell(pg, cell, day).classes)))

get_hotel_availability(pg, d, hotel_id, faultDays) ==
    DayLoop(pg, d, hotel_id, faultDays, 0, <<>>)

Hotel(id, name, availability) ==
    [id |-> id, name |-> name, availability |-> availability]

----------------------------------------------------------------------------
(* check_availability, step by step.  A step that raises runs the except  *)
(* clause it lands in at once and leaves the return value in `result`;    *)
(* the finally clause is the step Finally.                                 *)

Dates == { [year |-> 2025, month |-> 2, day |-> 9],
           [year |-> 2025, month |-> 2, day |-> 1] }

ExcTypes == {"TimeoutException", "WebDriverException"}

\* the except clauses of check_availability
Handler(d, exc) ==
    IF exc = "TimeoutException"
      THEN AvailabilityResult(d, <<>>, Some(<<"Timeout waiting for results">>))
      ELSE AvailabilityResult(d, <<>>, Some(<<"Unexpected error: ", exc>>))

NoResult == AvailabilityResult(date, <<>>, None)
NoFailure == [step |-> "none", exc |-> "none"]
Failure(step, exc) == [step |-> step, exc |-> exc]
NoMessage == [text |-> <<>>, entries |-> <<>>]

Init ==
    /\ pc = "main"
    /\ date \in Dates
    /\ driver = <<>>
    /\ quitCount = <<>>
    /\ page = NoPage
    /\ hotels = <<>>
    /\ result = NoResult
    /\ failedStep = NoFailure
    /\ raisedHotels = {}
    /\ message = NoMessage
    /\ sendAttempts = 0
    /\ classAttr = <<>>
    /\ status = <<>>

\* check_and_notify up to the call of check_availability
LoadCredentials ==
    /\ pc = "main"
    /\ \E present \in BOOLEAN : pc' = IF present THEN "setup_driver" ELSE "exit"
    /\ UNCHANGED <<date, driver, quitCount, page, hotels, result, failedStep,
                   raisedHotels, message, sendAttempts, classAttr, status>>

\* self.setup_driver()
SetupDriver ==
    /\ pc = "setup_driver"
    /\ \/ \* webdriver.Chrome(...) raises: self.driver keeps its value
          /\ result' = Handler(date, "WebDriverException")
          /\ failedStep' = Failure("setup_driver", "WebDriverException")
          /\ pc' = "finally"
          /\ UNCHANGED <<driver, quitCount>>
       \/ \* the session is created, implicitly_wait raises
          /\ driver' = <<Len(quitCount) + 1>>
          /\ quitCount' = Append(quitCount, 0)
          /\ result' = Handler(date, "WebDriverException")
          /\ failedStep' = Failure("setup_driver", "WebDriverException")
          /\ pc' = "finally"
       \/ /\ driver' = <<Len(quitCount) + 1>>
          /\ quitCount' = Append(quitCount, 0)
          /\ pc' = "get"
          /\ UNCHANGED <<result, failedStep>>
    /\ UNCHANGED <<date, page, hotels, raisedHotels, message, sendAttempts,
                   classAttr, status>>

\* self.driver.get(self.base_url)
LoadPage ==
    /\ pc = "get"
    /\ \/ \E exc \in ExcTypes :
             /\ result' = Handler(date, exc)
             /\ failedStep' = Failure("get", exc)
             /\ pc' = "finally"
       \/ /\ pc' = "set_date"
          /\ UNCHANGED <<result, failedStep>>
    /\ UNCHANGED <<date, driver, quitCount, page, hotels, raisedHotels,
                   message, sendAttempts, classAttr, status>>

\* if not self.set_date(date): return ...
SetDate ==
    /\ pc = "set_date"
    /\ \/ \* an input is not found or not writable: set_date returns False
          /\ result' = AvailabilityResult(date, <<>>, Some(<<"Failed to set date">>))
          /\ failedStep' = Failure("set_date", "caught")
          /\ pc' = "finally"
       \/ /\ pc' = "click_search"
          /\ UNCHANGED <<result, failedStep>>
    /\ UNCHANGED <<date, driver, quitCount, page, hotels, raisedHotels,
                   message, sendAttempts, classAttr, status>>

\* click_search whose failure is logged while the scrape goes on to the wait
ClickSearchGoesOn ==
    /\ pc = "click_search"
    /\ \/ /\ failedStep' = Failure("click_search", "caught")
          /\ pc' = "wait"
          /\ UNCHANGED result
       \/ /\ pc' = "wait"
          /\ UNCHANGED <<result, failedStep>>
    /\ UNCHANGED <<date, driver, quitCount, page, hotels, raisedHotels,
                   message, sendAttempts, classAttr, status>>

\* if not self.click_search(): return ...
ClickSearch ==
    /\ pc = "click_search"
    /\ \/ /\ result' = AvailabilityResult(date, <<>>,
                                          Some(<<"Failed to click search">>))
          /\ failedStep' = Failure("click_search", "caught")
          /\ pc' = "finally"
       \/ /\ pc' = "wait"
          /\ UNCHANGED <<result, failedStep>>
    /\ UNCHANGED <<date, driver, quitCount, page, hotels, raisedHotels,
                   message, sendAttempts, classAttr, status>>

\* WebDriverWait(self.driver, 10).until(presence_of_element_located(...))
WaitForResults ==
    /\ pc = "wait"
    /\ \/ \E exc \in ExcTypes :
             /\ result' = Handler(date, exc)
             /\ failedStep' = Failure("wait", exc)
             /\ pc' = "finally"
             /\ UNCHANGED page
       \/ \E pg \in Pages :
             /\ page' = pg
             /\ pc' = "extract"
             /\ UNCHANGED <<result, failedStep>>
    /\ UNCHANGED <<date, driver, quitCount, hotels, raisedHotels,
                   message, sendAttempts, classAttr, status>>

\* the loop body without the try/except of get_hotel_availability: a failed
\* header lookup reaches the except clause of check_availability
ExtractHotelNoIsolation ==
    /\ pc = "extract"
    /\ Len(hotels) < Len(MONITORED_HOTELS)
    /\ LET h == MONITORED_HOTELS[Len(hotels) + 1] IN
       \E faultDays \in {{}} \cup
                {{d} : d \in IF Cardinality(raisedHotels) < MaxFaults
                                THEN GridDays ELSE {}} :
          LET r == get_hotel_availability(page, date, h.id, faultDays) IN
          IF r.raised
            THEN /\ raisedHotels' = raisedHotels \cup {h.id}
                 /\ result' = Handler(date, "WebDriverException")
                 /\ pc' = "finally"
                 /\ UNCHANGED hotels
            ELSE /\ hotels' = Append(hotels, Hotel(h.id, h.name, r.availability))
                 /\ UNCHANGED <<pc, result, raisedHotels>>
    /\ UNCHANGED <<date, driver, quitCount, page, failedStep,
                   message, sendAttempts, classAttr, status>>

\* one iteration of: for hotel_id, hotel_name in self.MONITORED_HOTELS.items()
ExtractHotel ==
    /\ pc = "extract"
    /\ Len(hotels) < Len(MONITORED_HOTELS)
    /\ LET h == MONITORED_HOTELS[Len(hotels) + 1] IN
       \E faultDays \in {{}} \cup
                {{d} : d \in IF Cardinality(raisedHotels) < MaxFaults
                                THEN GridDays ELSE {}} :
          LET r == get_hotel_availability(page, date, h.id, faultDays) IN
          /\ hotels' = Append(hotels, Hotel(h.id, h.name, r.availability))
          /\ raisedHotels' = IF r.raised THEN raisedHotels \cup {h.id}
                              ELSE raisedHotels
    /\ UNCHANGED <<pc, date, driver, quitCount, page, result, failedStep,
                   message, sendAttempts, classAttr, status>>

\* the return with a per-hotel failure escalated to the result's error
ReturnResultEscalating ==
    /\ pc = "extract"
    /\ Len(hotels) = Len(MONITORED_HOTELS)
    /\ result' = AvailabilityResult(date, hotels,
                     IF raisedHotels = {} THEN None
                     ELSE Some(<<"Unexpected error: ", "WebDriverException">>))
    /\ pc' = "finally"
    /\ UNCHANGED <<date, driver, quitCount, page, hotels, failedStep,
                   raisedHotels, message, sendAttempts, classAttr, status>>

\* return AvailabilityResult(date=date, hotels=hotels)
ReturnResult ==
    /\ pc = "extract"
    /\ Len(hotels) = Len(MONITORED_HOTELS)
    /\ result' = AvailabilityResult(date, hotels, None)
    /\ pc' = "finally"
    /\ UNCHANGED <<date, driver, quitCount, page, hotels, failedStep,
                   raisedHotels, message, sendAttempts, classAttr, status>>

\* the session released on the success path only
FinallyOnSuccessOnly ==
    /\ pc = "finally"
    /\ IF driver # <<>> /\ result.error = None
         THEN /\ quitCount' = [quitCount EXCEPT ![driver[1]] = @ + 1]
              /\ pc' \in {"returned", "propagated"}
         ELSE /\ pc' = "returned"
              /\ UNCHANGED quitCount
    /\ UNCHANGED <<date, driver, page, hotels, result, failedStep,
                   raisedHotels, message, sendAttempts, classAttr, status>>

\* finally: if self.driver: self.driver.quit()
Finally ==
    /\ pc = "finally"
    /\ IF driver # <<>>
         THEN /\ quitCount' = [quitCount EXCEPT ![driver[1]] = @ + 1]
              \* quit returns, or raises and the exception leaves the call
              /\ pc' \in {"returned", "propagated"}
         ELSE /\ pc' = "returned"
              /\ UNCHANGED quitCount
    /\ UNCHANGED <<date, driver, page, hotels, result, failedStep,
                   raisedHotels, message, sendAttempts, classAttr, status>>

----------------------------------------------------------------------------
(* main.py: the formatter and the rest of check_and_notify *)

status_emoji(st) ==
    IF st = AVAILABLE THEN "circles"
    ELSE IF st = ALMOST_FULL THEN "warnings"
    ELSE IF st = BOOKED THEN "cross"
    ELSE IF st = NOT_OPEN THEN "dash"
    ELSE "question"

\* strftime("%m").lstrip("0") + '/' + strftime("%d").lstrip("0")
target_date_str(d) ==
    Lstrip0(Strftime2(d.month)) \o <<"/">> \o Lstrip0(Strftime2(d.day))

\* for date, avail_status in availability.items():
\*     if date.startswith(target): status = avail_status; break
RECURSIVE SelectStatus(_, _)
SelectStatus(availability, target) ==
    IF availability = <<>> THEN UNKNOWN
    ELSE IF StartsWith(Head(availability).key, target)
      THEN Head(availability).value
    ELSE SelectStatus(Tail(availability), target)

FormatHotel(hotel, d) ==
    LET st == SelectStatus(hotel.availability, target_date_str(d)) IN
    [name |-> escape_markdown(hotel.name),
     date |-> escape_markdown(target_date_str(d)),
     emoji |-> status_emoji(st),
     status |-> escape_markdown(st)]

format_availability_message(res) ==
    IF Truthy(res.error)
      THEN [text |-> <<"Error checking availability: ">>
                        \o escape_markdown(res.error.text),
            entries |-> <<>>]
      ELSE [text |-> <<"*Shirakawago Availability Report*", "Date: ">>
                        \o Str(res.date.year) \o <<"-">>
                        \o Strftime2(res.date.month) \o <<"-">>
                        \o Strftime2(res.date.day),
            entries |-> [i \in 1..Len(res.hotels) |->
                            FormatHotel(res.hotels[i], res.date)]]

\* message = format_availability_message(result)
FormatMessage ==
    /\ pc = "returned"
    /\ message' = format_availability_message(result)
    /\ pc' = "send"
    /\ UNCHANGED <<date, driver, quitCount, page, hotels, result, failedStep,
                   raisedHotels, sendAttempts, classAttr, status>>

\* await notifier.send_message(message): True, or False on a TelegramError
SendMessage ==
    /\ pc = "send"
    /\ sendAttempts' = sendAttempts + 1
    /\ pc' \in {"sent", "send_failed"}
    /\ UNCHANGED <<date, driver, quitCount, page, hotels, result, failedStep,
                   raisedHotels, message, classAttr, status>>

\* the logging after the send; check_and_notify returns
Finish ==
    /\ pc \in {"sent", "send_failed"}
    /\ pc' = "exit"
    /\ UNCHANGED <<date, driver, quitCount, page, hotels, result, failedStep,
                   raisedHotels, message, sendAttempts, classAttr, status>>

\* an exception out of check_availability ends check_and_notify
Abort ==
    /\ pc = "propagated"
    /\ pc' = "exit"
    /\ UNCHANGED <<date, driver, quitCount, page, hotels, result, failedStep,
                   raisedHotels, message, sendAttempts, classAttr, status>>

Next ==
    \/ LoadCredentials
    \/ SetupDriver
    \/ LoadPage
    \/ SetDate
    \/ ClickSearch
    \/ WaitForResults
    \/ ExtractHotel
    \/ ReturnResult
    \/ Finally
    \/ FormatMessage
    \/ SendMessage
    \/ Finish
    \/ Abort

Spec == Init /\ [][Next]_vars

----------------------------------------------------------------------------
(* The classifier on its own: every class attribute of up to MaxClassLen   *)
(* tokens is handed to parse_availability_status.                          *)

ClassTokens == {"mark", "sat", "m01", "m01_col", "m02", "m02_col", "m03"}

InitClassify ==
    /\ pc = "classify"
    /\ date = [year |-> 2025, month |-> 2, day |-> 9]
    /\ driver = <<>>
    /\ quitCount = <<>>
    /\ page = NoPage
    /\ hotels = <<>>
    /\ result = NoResult
    /\ failedStep = NoFailure
    /\ raisedHotels = {}
    /\ message = NoMessage
    /\ sendAttempts = 0
    /\ classAttr \in SeqsUpTo(ClassTokens, MaxClassLen)
    /\ status = <<>>

\* status = self.parse_availability_status(cell)
Classify ==
    /\ pc = "classify"
    /\ status' = parse_availability_status(classAttr)
    /\ pc' = "classified"
    /\ UNCHANGED <<date, driver, quitCount, page, hotels, result, failedStep,
                   raisedHotels, message, sendAttempts, classAttr>>

NextClassify == Classify

SpecClassify == InitClassify /\ [][NextClassify]_vars

----------------------------------------------------------------------------
(* A caller that keeps the scraper object and calls check_availability    *)
(* again: self.driver keeps the value the last call left in it, the       *)
(* locals of the call are fresh.                                           *)

RECURSIVE SumSeq(_)
SumSeq(q) == IF q = <<>> THEN 0 ELSE Head(q) + SumSeq(Tail(q))

\* result = scraper.check_availability(target_date), once more
CallAgain ==
    /\ pc \in {"returned", "propagated"}
    /\ SumSeq(quitCount) < MaxCalls
    /\ pc' = "setup_driver"
    /\ page' = NoPage
    /\ hotels' = <<>>
    /\ result' = NoResult
    /\ failedStep' = NoFailure
    /\ raisedHotels' = {}
    /\ UNCHANGED <<date, driver, quitCount, message, sendAttempts,
                   classAttr, status>>

NextCalls ==
    \/ LoadCredentials
    \/ SetupDriver
    \/ LoadPage
    \/ SetDate
    \/ ClickSearch
    \/ WaitForResults
    \/ ExtractHotel
    \/ ReturnResult
    \/ Finally
    \/ FormatMessage
    \/ SendMessage
    \/ Finish
    \/ Abort
    \/ CallAgain

SpecCalls == Init /\ [][NextCalls]_vars

----------------------------------------------------------------------------
(* Claims *)

\* check_availability has ended, by a return or by an exception
CallEnded ==
    pc \in {"returned", "propagated", "send", "sent", "send_failed"}
    \/ (pc = "exit" /\ (failedStep # NoFailure \/ quitCount # <<>>))

\* check_availability has returned `result` to its caller
CallReturned == pc \in {"returned", "send", "sent", "send_failed"}

\* C1: every session opened by check_availability has been released
\* (driver.quit called on it) exactly once when the call ends, whatever the
\* exit path, and is not released before the finally clause.
SessionReleasedExactlyOnce ==
    \A s \in 1..Len(quitCount) :
        quitCount[s] = IF CallEnded THEN 1 ELSE 0

\* C1 witness: the results wait timed out and the session was released once
TimeoutPathReleased ==
    /\ pc = "returned"
    /\ failedStep = Failure("wait", "TimeoutException")
    /\ Len(quitCount) = 1
    /\ quitCount[1] = 1

\* C2: check_availability never propagates an exception: the call ends by
\* returning a result, and a failed step is carried in its error field.
NeverPropagates ==
    /\ pc # "propagated"
    /\ (CallReturned /\ failedStep # NoFailure) => result.error.some

\* C3: in a returned result, a set error means no hotels, and no error means
\* exactly one entry per monitored hotel, in registry order.
ErrorAndHotelsExclusive ==
    CallReturned =>
        IF result.error # None
          THEN result.hotels = <<>>
          ELSE /\ Len(result.hotels) = Len(MONITORED_HOTELS)
               /\ \A i \in 1..Len(result.hotels) :
                     /\ result.hotels[i].id = MONITORED_HOTELS[i].id
                     /\ result.hotels[i].name = MONITORED_HOTELS[i].name

\* C3 witness: a result without error whose hotels carry data, and the
\* call has returned
FullResultReturned ==
    /\ pc = "returned"
    /\ result.error = None
    /\ Len(result.hotels) = 3
    /\ result.hotels[1].availability # <<>>

\* C4: the error names the failed step: "Failed to set date" for the date
\* inputs, "Failed to click search" for the search control, "Timeout
\* waiting for results" exactly when the results wait timed out, and an
\* "Unexpected error" message for every other failure.
ErrorNamesFailedStep ==
    CallReturned =>
        /\ failedStep.step = "set_date"
              => result.error = Some(<<"Failed to set date">>)
        /\ failedStep.step = "click_search"
              => result.error = Some(<<"Failed to click search">>)
        /\ result.error = Some(<<"Timeout waiting for results">>)
              <=> failedStep = Failure("wait", "TimeoutException")
        /\ (failedStep.step \in {"setup_driver", "get", "wait"}
              /\ failedStep # Failure("wait", "TimeoutException"))
              => /\ result.error.some
                 /\ Head(result.error.text) = "Unexpected error: "

\* C5: parse_availability_status follows the ordered decision table on the
\* set of tokens: AVAILABLE if m01 and m01_col are present, else ALMOST_FULL
\* if m02 and m02_col are, else BOOKED if m03 is, else NOT_OPEN.
ClassifierDecisionTable ==
    pc = "classified" =>
        LET toks == {classAttr[i] : i \in 1..Len(classAttr)}
            avail == {"m01", "m01_col"} \subseteq toks
            almost == {"m02", "m02_col"} \subseteq toks
        IN  /\ avail => status = AVAILABLE
            /\ (~avail /\ almost) => status = ALMOST_FULL
            /\ (~avail /\ ~almost /\ "m03" \in toks) => status = BOOKED
            /\ (~avail /\ ~almost /\ "m03" \notin toks) => status = NOT_OPEN
            /\ toks \cap {"m01", "m01_col", "m02", "m02_col", "m03"} = {}
                  => status = NOT_OPEN

\* C5 witness: both available markers beside the booked marker and an
\* unrelated token, classified AVAILABLE
AvailableWinsOverBooked ==
    /\ pc = "classified"
    /\ {"m01", "m01_col", "m03", "sat"}
          \subseteq {classAttr[i] : i \in 1..Len(classAttr)}
    /\ status = AVAILABLE

\* the hotel link of the row names the hotel
RowNames(pg, row, hotel_id) ==
    LET link == FindHotelLink(pg, row) IN
    link.exists /\ link.onclick.some /\ Contains(link.onclick.text, hotel_id)

\* C6: for a hotel whose identifier appears in no row's hotel link of the
\* rendered grid, get_hotel_availability returns an empty mapping.
AbsentHotelGetsEmptyMapping ==
    \A i \in 1..Len(hotels) :
        (\A row \in 0..(page.offset + Len(page.rows)) :
            ~RowNames(page, row, hotels[i].id))
        => hotels[i].availability = <<>>

\* the label the grid shows for the target date's column
TargetLabel(d) == Str(d.month) \o <<"/">> \o Str(d.day)

\* C7: for each hotel of a result without error the message reports the
\* state recorded under the target date's label, and UNKNOWN when the
\* hotel has no entry under that label.
MessageReportsTargetDate ==
    (pc = "send" /\ ~Truthy(result.error)) =>
        /\ Len(message.entries) = Len(result.hotels)
        /\ \A i \in 1..Len(result.hotels) :
             LET avail == result.hotels[i].availability
                 expected == IF TargetLabel(result.date) \in DictKeys(avail)
                               THEN DictGet(avail, TargetLabel(result.date))
                               ELSE UNKNOWN
             IN  /\ message.entries[i].emoji = status_emoji(expected)
                 /\ message.entries[i].status = escape_markdown(expected)

\* C8: a failed lookup in one hotel's extraction leaves the result without
\* error and with an entry for every monitored hotel, and the other
\* hotels' availability is what the extraction gives without any failure.
HotelFailureIsolated ==
    (CallReturned /\ raisedHotels # {}) =>
        /\ result.error = None
        /\ Len(result.hotels) = Len(MONITORED_HOTELS)
        /\ \A i \in 1..Len(result.hotels) :
              result.hotels[i].id \notin raisedHotels
              => result.hotels[i].availability =
                   get_hotel_availability(page, date, result.hotels[i].id,
                                          {}).availability

\* C8 witness: the first hotel's extraction failed and a later hotel still
\* reports data
LaterHotelStillReports ==
    /\ pc = "returned"
    /\ raisedHotels = {MONITORED_HOTELS[1].id}
    /\ result.error = None
    /\ Len(result.hotels) = 3
    /\ result.hotels[2].availability # <<>>

\* C9: every run that reaches the scrape has attempted exactly one send of
\* a non-empty message when it ends, also when the scrape failed.
EveryScrapeRunSendsOnce ==
    (pc = "exit" /\ (failedStep # NoFailure \/ quitCount # <<>>)) =>
        /\ sendAttempts = 1
        /\ message.text # <<>>

\* the lowest row below the cap whose cell exists in the column and whose
\* hotel link names the hotel
OwningRows(pg, hotel_id, day) ==
    {row \in 0..(RowCap - 1) :
        FindCell(pg, row, day).exists /\ RowNames(pg, row, hotel_id)}
Lowest(S) == CHOOSE x \in S : \A y \in S : x <= y

\* C10: an entry is recorded under a column's header label only if a row
\* 0..29 owns the column for the hotel, and its state is the classification
\* of the owning cell of the lowest such row.
RecordsOwningCellOnly ==
    \A i \in 1..Len(hotels) : \A day \in 0..(DayCount - 1) :
        LET avail == hotels[i].availability
            label == HeaderText(date, day)
            owners == OwningRows(page, hotels[i].id, day)
        IN  label \in DictKeys(avail) =>
              /\ owners # {}
              /\ DictGet(avail, label) =
                    parse_availability_status(
                        FindCell(page, Lowest(owners), day).classes)

\* the steps of check_availability in program order
CallSteps ==
    <<"setup_driver", "get", "set_date", "click_search", "wait", "extract",
      "finally">>
Position(p) == CHOOSE i \in 1..Len(CallSteps) : CallSteps[i] = p
\* the steps that act on the session before its release
SessionSteps == {CallSteps[i] : i \in 1..(Len(CallSteps) - 1)}

\* C11: within one invocation the steps are taken in program order, each
\* at most once (a step leads to the next step or, on its failure, straight
\* to the release; only the extraction repeats, once per hotel); after a
\* failure no later step is attempted; and once the call has ended nothing
\* but the release has touched the session.
StepsInOrderNoRetry ==
    [][ /\ pc \in SessionSteps =>
             /\ pc' = pc => /\ pc = "extract"
                            /\ Len(hotels') = Len(hotels) + 1
             /\ pc' # pc => pc' \in {CallSteps[Position(pc) + 1], "finally"}
             /\ failedStep' # NoFailure => pc' = "finally"
             /\ failedStep = NoFailure
             /\ quitCount' \in {quitCount, Append(quitCount, 0)}
        /\ pc = "finally" =>
             /\ pc' \in {"returned", "propagated"}
             /\ UNCHANGED <<driver, page, hotels, result, failedStep>>
        /\ pc \in {"returned", "propagated", "send", "sent", "send_failed",
                    "exit"} =>
             /\ pc' \notin SessionSteps \cup {"finally"}
             /\ UNCHANGED <<driver, quitCount, page, hotels, result,
                            failedStep>>
      ]_vars

\* C11 witness: the search click failed; the call returned without a wait
\* or an extraction, the session released
ClickFailureEndsScrape ==
    /\ pc = "returned"
    /\ failedStep = Failure("click_search", "caught")
    /\ page = NoPage
    /\ hotels = <<>>
    /\ quitCount = <<1>>

\* C12: over a sequence of calls on one scraper object every call uses and
\* releases only the session it created: no session is released a second
\* time, and the session a step acts on has not been released.
CallsOwnTheirSession ==
    /\ \A s \in 1..Len(quitCount) : quitCount[s] <= 1
    /\ pc \in (SessionSteps \ {"setup_driver"}) =>
          /\ driver # <<>>
          /\ quitCount[driver[1]] = 0
====
